---- MODULE Spec2Model ----
(***************************************************************************)
(* Model of src/dataset.py: the PolarsDataset proxy (a frozen dataclass    *)
(* holding a polars container `data` and a metadata field `extra_attr`)    *)
(* and the free function concat.                                           *)
(*                                                                         *)
(* Python objects live in `heap`; a reference is an index into it, so      *)
(* object identity is the index.  polars itself is an external library:    *)
(* what one of its attributes or methods yields is chosen by the           *)
(* environment (an outcome), and every invocation the proxy makes on it is *)
(* recorded in last.calls with the receiver and the arguments it was given.*)
(***************************************************************************)
EXTENDS Naturals, Sequences, FiniteSets

VARIABLES heap, last

vars == <<heap, last>>

\* ------------------------------------------------------------------ bounds
MaxHeap == 9
MaxItems == 2
MaxParts == 2

\* --------------------------------------------------------------- constants
DataFrameLikeClasses ==
  {"DataFrame", "GroupBy", "DynamicGroupBy", "RollingGroupBy", "LazyFrame", "LazyGroupBy"}

\* the dataclass field default of extra_attr
DefaultExtraAttr == "hello!"

\* ------------------------------------------------------------------ values
Raw(cls) == [cls |-> cls, data |-> 0, extra_attr |-> ""]

PolarsDataset(data, extra_attr) ==
  [cls |-> "PolarsDataset", data |-> data, extra_attr |-> extra_attr]

isinstance(h, r, classes) == r \in DOMAIN h /\ h[r].cls \in classes

IsProxy(h, r) == isinstance(h, r, {"PolarsDataset"})

callable(h, r) == isinstance(h, r, {"method"})

Proxies(h) == {r \in DOMAIN h : IsProxy(h, r)}

\* an argument is a reference to a heap object or a string literal
Obj(r) == [ref |-> r, str |-> ""]
Str(s) == [ref |-> 0, str |-> s]

Call(name, recv, args, kwargs) ==
  [name |-> name, recv |-> recv, args |-> args, kwargs |-> kwargs]

\* --------------------------------------------- the external library (polars)
\* What polars may answer: the attribute is missing, the call raises, or it
\* returns a fresh object of some class (family or not).
EngineClasses == {"DataFrame", "int"}

EngineOutcomes ==
  {[kind |-> "noattr", cls |-> ""], [kind |-> "raise", cls |-> ""]}
    \cup {[kind |-> "value", cls |-> c] : c \in EngineClasses}

AttrOutcomes ==
  {[kind |-> "noattr", cls |-> ""]}
    \cup {[kind |-> "value", cls |-> c] : c \in EngineClasses \cup {"method"}}

ConcatOutcomes == {o \in EngineOutcomes : o.kind # "noattr"}

DictKeys == <<"a", "b", "c", "d">>

PartitionOutcomes ==
  {[kind |-> "noattr", elems |-> <<>>], [kind |-> "raise", elems |-> <<>>],
   [kind |-> "other", elems |-> <<>>]}
    \cup {[kind |-> k, elems |-> [i \in 1..n |-> c]] :
            k \in {"list", "dict"}, n \in 0..MaxParts, c \in EngineClasses}

\* the outcome of evaluating a Python expression
Raised(h, calls, e) ==
  [heap |-> h, calls |-> calls, rawshape |-> "none", raw |-> <<>>,
   rawkeys |-> <<>>, retshape |-> "none", ret |-> <<>>, retkeys |-> <<>>,
   exc |-> e]

Returned(h, calls, r) ==
  [heap |-> h, calls |-> calls, rawshape |-> "value", raw |-> <<r>>,
   rawkeys |-> <<>>, retshape |-> "value", ret |-> <<r>>, retkeys |-> <<>>,
   exc |-> ""]

\* getattr(payload, name)(*args, **kwargs)
Engine(h, call, out) ==
  CASE out.kind = "noattr" -> Raised(h, <<>>, "AttributeError")
    [] out.kind = "raise" -> Raised(h, <<call>>, "EngineError")
    [] OTHER -> Returned(Append(h, Raw(out.cls)), <<call>>, Len(h) + 1)

\* getattr(payload, name)
Lookup(h, out) ==
  CASE out.kind = "noattr" -> Raised(h, <<>>, "AttributeError")
    [] OTHER -> Returned(Append(h, Raw(out.cls)), <<>>, Len(h) + 1)

\* payload.partition_by(*args, **kwargs)
EnginePartition(h, call, out) ==
  CASE out.kind = "noattr" -> Raised(h, <<>>, "AttributeError")
    [] out.kind = "raise" -> Raised(h, <<call>>, "EngineError")
    [] OTHER ->
        LET n == Len(out.elems) IN
        [heap |-> h \o [i \in 1..n |-> Raw(out.elems[i])],
         calls |-> <<call>>,
         rawshape |-> out.kind,
         raw |-> [i \in 1..n |-> Len(h) + i],
         rawkeys |-> IF out.kind = "dict" THEN SubSeq(DictKeys, 1, n) ELSE <<>>,
         retshape |-> out.kind,
         ret |-> [i \in 1..n |-> Len(h) + i],
         retkeys |-> IF out.kind = "dict" THEN SubSeq(DictKeys, 1, n) ELSE <<>>,
         exc |-> ""]

\* ------------------------------------------------------------ PolarsDataset
\* a variant that builds PolarsDataset(data) afresh: the metadata falls back
\* to the field default
replace_default(h, self, data) ==
  Append(h, PolarsDataset(data, DefaultExtraAttr))

\* dataclasses.replace(self, data=data): a new instance, the other field kept
replace(h, self, data) ==
  Append(h, PolarsDataset(data, h[self].extra_attr))

RECURSIVE replace_each(_, _, _)
replace_each(h, self, datas) ==
  IF datas = <<>> THEN h
  ELSE replace_each(replace(h, self, Head(datas)), self, Tail(datas))

\* a variant without the isinstance test: every result is wrapped
_wrap_method_always(h, self, call, out) ==
  LET r == Engine(h, call, out) IN
  IF r.exc # "" THEN r
  ELSE [r EXCEPT !.heap = replace(r.heap, self, r.raw[1]),
                 !.ret = <<Len(r.heap) + 1>>]

\* the wrapper _wrap_method returns, applied: __func is the payload's
\* attribute call.name, called with call.args and call.kwargs
_wrap_method(h, self, call, out) ==
  LET r == Engine(h, call, out) IN
  IF r.exc # "" THEN r
  ELSE IF isinstance(r.heap, r.raw[1], DataFrameLikeClasses)
       THEN [r EXCEPT !.heap = replace(r.heap, self, r.raw[1]),
                      !.ret = <<Len(r.heap) + 1>>]
       ELSE r

\* proxy.<name> for a name not defined on the proxy type
__getattr__(h, self, name, out) ==
  LET r == Lookup(h, out) IN
  IF r.exc # "" THEN r
  ELSE IF isinstance(r.heap, r.raw[1], DataFrameLikeClasses)
       THEN [r EXCEPT !.heap = replace(r.heap, self, r.raw[1]),
                      !.ret = <<Len(r.heap) + 1>>]
       ELSE IF callable(r.heap, r.raw[1])
            THEN [r EXCEPT !.retshape = "wrapper", !.ret = <<>>]
            ELSE r

\* proxy.<name>(*args, **kwargs): __getattr__ finds a callable and hands it
\* to _wrap_method; the wrapper is then called
call_method(h, self, name, args, kwargs, out) ==
  _wrap_method(h, self, Call(name, h[self].data, args, kwargs), out)

\* self._compare_to_other_df and self._compare_to_non_df are not defined on
\* the proxy type: they resolve through __getattr__ to the payload's methods
_comp(h, self, other, op, out) ==
  IF IsProxy(h, other)
  THEN call_method(h, self, "_compare_to_other_df", <<Obj(other), Str(op)>>, <<>>, out)
  ELSE call_method(h, self, "_compare_to_non_df", <<Obj(other), Str(op)>>, <<>>, out)

\* a variant that hands the other operand to the payload as it is
_apply_op_no_unwrap(h, self, other, op, args, kwargs, out) ==
  LET r == Engine(h, Call(op, h[self].data, <<Obj(other)>> \o args, kwargs), out) IN
  IF r.exc # "" THEN r
  ELSE [r EXCEPT !.heap = replace(r.heap, self, r.raw[1]),
                 !.ret = <<Len(r.heap) + 1>>]

\* getattr(self, __op) is the proxy's own method of that name (lines
\* 102-124, 147-151), which calls _apply_op again with the payload
RECURSIVE _apply_op(_, _, _, _, _, _, _)
_apply_op(h, self, other, op, args, kwargs, out) ==
  IF IsProxy(h, other)
  THEN _apply_op(h, self, h[other].data, op, args, kwargs, out)
  ELSE LET r == Engine(h, Call(op, h[self].data, <<Obj(other)>> \o args, kwargs), out) IN
       IF r.exc # "" THEN r
       ELSE [r EXCEPT !.heap = replace(r.heap, self, r.raw[1]),
                      !.ret = <<Len(r.heap) + 1>>]

getitem(h, self, item, out) ==
  _wrap_method(h, self, Call("__getitem__", h[self].data, <<Obj(item)>>, <<>>), out)

\* a variant that returns the instance itself
copy_self(h, self) ==
  [Returned(h, <<>>, self) EXCEPT !.rawshape = "none", !.raw = <<>>]

copy(h, self) ==
  [Returned(replace(h, self, h[self].data), <<>>, Len(h) + 1)
     EXCEPT !.rawshape = "none", !.raw = <<>>]

\* a variant that falls back to the default: the state is returned
getstate_default(h, self) ==
  [Returned(h, <<>>, self) EXCEPT !.rawshape = "none", !.raw = <<>>]

getstate(h, self) == Raised(h, <<>>, "NotImplementedError")

\* the dataclass is frozen: assigning a field raises
setattr(h, self, name, value) == Raised(h, <<>>, "FrozenInstanceError")

\* a variant that wraps the containers of a list in reverse order
partition_by_reversed(h, self, args, kwargs, out) ==
  LET r == EnginePartition(h, Call("partition_by", h[self].data, args, kwargs), out)
      n == Len(r.raw)
  IN
  IF r.exc # "" THEN r
  ELSE IF r.rawshape \in {"list", "dict"}
       THEN [r EXCEPT !.heap = replace_each(r.heap, self, [i \in 1..n |-> r.raw[n + 1 - i]]),
                      !.ret = [i \in 1..n |-> Len(r.heap) + i],
                      !.retkeys = r.rawkeys]
       ELSE [Raised(r.heap, r.calls, "AssertionError")
               EXCEPT !.rawshape = r.rawshape]

partition_by_(h, self, args, kwargs, out) ==
  LET r == EnginePartition(h, Call("partition_by", h[self].data, args, kwargs), out) IN
  IF r.exc # "" THEN r
  ELSE IF r.rawshape = "list"
       THEN [r EXCEPT !.heap = replace_each(r.heap, self, r.raw),
                      !.ret = [i \in 1..Len(r.raw) |-> Len(r.heap) + i]]
       ELSE IF r.rawshape = "dict"
            THEN [r EXCEPT !.heap = replace_each(r.heap, self, r.raw),
                           !.ret = [i \in 1..Len(r.raw) |-> Len(r.heap) + i],
                           !.retkeys = [i \in 1..Len(r.rawkeys) |-> r.rawkeys[i]]]
            ELSE [Raised(r.heap, r.calls, "AssertionError")
                    EXCEPT !.rawshape = r.rawshape]

\* a variant that takes the metadata of the first item
concat_first_item(h, items, base, kwargs, out) ==
  LET r == Engine(h, Call("concat", 0,
                          [i \in 1..Len(items) |-> Obj(h[items[i]].data)], kwargs), out) IN
  IF r.exc # "" THEN r
  ELSE [r EXCEPT !.heap = replace(r.heap, IF items = <<>> THEN base ELSE items[1], r.raw[1]),
                 !.ret = <<Len(r.heap) + 1>>]

concat_(h, items, base, kwargs, out) ==
  LET r == Engine(h, Call("concat", 0,
                          [i \in 1..Len(items) |-> Obj(h[items[i]].data)], kwargs), out) IN
  IF r.exc # "" THEN r
  ELSE [r EXCEPT !.heap = replace(r.heap, base, r.raw[1]),
                 !.ret = <<Len(r.heap) + 1>>]

\* ------------------------------------------------------------------- state
InitHeap ==
  <<Raw("DataFrame"), Raw("LazyFrame"), Raw("int"),
    PolarsDataset(1, DefaultExtraAttr), PolarsDataset(2, "X")>>

NoOp ==
  [op |-> "init", self |-> 0, other |-> 0, items |-> <<>>, name |-> "",
   args |-> <<>>, kwargs |-> <<>>, pre |-> 0,
   calls |-> <<>>, rawshape |-> "none", raw |-> <<>>, rawkeys |-> <<>>,
   retshape |-> "none", ret |-> <<>>, retkeys |-> <<>>, exc |-> ""]

Init == heap = InitHeap /\ last = NoOp

\* the plain values callers pass as extra arguments
PlainRefs == {r \in DOMAIN InitHeap : ~isinstance(InitHeap, r, DataFrameLikeClasses \cup {"PolarsDataset"})}

ExtraArgs ==
  {[args |-> <<>>, kwargs |-> <<>>]}
    \cup {[args |-> <<Obj(r)>>, kwargs |-> <<[key |-> "how", ref |-> r]>>] : r \in PlainRefs}

NoExtra == [args |-> <<>>, kwargs |-> <<>>]

AttrNames == {"select", "shape"}

\* the operands callers pass: the objects they constructed and every proxy
Operands(h) == DOMAIN InitHeap \cup Proxies(h)

Items(h) == UNION {[1..n -> Proxies(InitHeap)] : n \in 0..MaxItems}

\* one operation: the heap after it and the record of what it did
Do(op, self, other, items, name, extra, r) ==
  /\ Len(r.heap) <= MaxHeap
  /\ heap' = r.heap
  /\ last' = [op |-> op, self |-> self, other |-> other, items |-> items,
              name |-> name, args |-> extra.args, kwargs |-> extra.kwargs,
              pre |-> Len(heap),
              calls |-> r.calls, rawshape |-> r.rawshape, raw |-> r.raw,
              rawkeys |-> r.rawkeys, retshape |-> r.retshape, ret |-> r.ret,
              retkeys |-> r.retkeys, exc |-> r.exc]

__eq__ ==
  /\ last = NoOp
  /\ \E self \in Proxies(heap), other \in Operands(heap), out \in EngineOutcomes :
       Do("__eq__", self, other, <<>>, "", NoExtra, _comp(heap, self, other, "eq", out))

__ne__ ==
  /\ last = NoOp
  /\ \E self \in Proxies(heap), other \in Operands(heap), out \in EngineOutcomes :
       Do("__ne__", self, other, <<>>, "", NoExtra, _comp(heap, self, other, "neq", out))

__gt__ ==
  /\ last = NoOp
  /\ \E self \in Proxies(heap), other \in Operands(heap), out \in EngineOutcomes :
       Do("__gt__", self, other, <<>>, "", NoExtra, _comp(heap, self, other, "gt", out))

__lt__ ==
  /\ last = NoOp
  /\ \E self \in Proxies(heap), other \in Operands(heap), out \in EngineOutcomes :
       Do("__lt__", self, other, <<>>, "", NoExtra, _comp(heap, self, other, "lt", out))

__ge__ ==
  /\ last = NoOp
  /\ \E self \in Proxies(heap), other \in Operands(heap), out \in EngineOutcomes :
       Do("__ge__", self, other, <<>>, "", NoExtra, _comp(heap, self, other, "gt_eq", out))

\* a variant with the <= / >= names swapped
__le__swapped ==
  /\ last = NoOp
  /\ \E self \in Proxies(heap), other \in Operands(heap), out \in EngineOutcomes :
       Do("__le__", self, other, <<>>, "", NoExtra, _comp(heap, self, other, "gt_eq", out))

__le__ ==
  /\ last = NoOp
  /\ \E self \in Proxies(heap), other \in Operands(heap), out \in EngineOutcomes :
       Do("__le__", self, other, <<>>, "", NoExtra, _comp(heap, self, other, "lt_eq", out))

__floordiv__ ==
  /\ last = NoOp
  /\ \E self \in Proxies(heap), other \in Operands(heap), out \in EngineOutcomes :
       Do("__floordiv__", self, other, <<>>, "", NoExtra,
          _apply_op(heap, self, other, "__floordiv__", <<>>, <<>>, out))

__truediv__ ==
  /\ last = NoOp
  /\ \E self \in Proxies(heap), other \in Operands(heap), out \in EngineOutcomes :
       Do("__truediv__", self, other, <<>>, "", NoExtra,
          _apply_op(heap, self, other, "__truediv__", <<>>, <<>>, out))

__mul__ ==
  /\ last = NoOp
  /\ \E self \in Proxies(heap), other \in Operands(heap), out \in EngineOutcomes :
       Do("__mul__", self, other, <<>>, "", NoExtra,
          _apply_op(heap, self, other, "__mul__", <<>>, <<>>, out))

__rmul__ ==
  /\ last = NoOp
  /\ \E self \in Proxies(heap), other \in Operands(heap), out \in EngineOutcomes :
       Do("__rmul__", self, other, <<>>, "", NoExtra,
          _apply_op(heap, self, other, "__rmul__", <<>>, <<>>, out))

__add__ ==
  /\ last = NoOp
  /\ \E self \in Proxies(heap), other \in Operands(heap), out \in EngineOutcomes :
       Do("__add__", self, other, <<>>, "", NoExtra,
          _apply_op(heap, self, other, "__add__", <<>>, <<>>, out))

__radd__ ==
  /\ last = NoOp
  /\ \E self \in Proxies(heap), other \in Operands(heap), out \in EngineOutcomes :
       Do("__radd__", self, other, <<>>, "", NoExtra,
          _apply_op(heap, self, other, "__radd__", <<>>, <<>>, out))

__sub__ ==
  /\ last = NoOp
  /\ \E self \in Proxies(heap), other \in Operands(heap), out \in EngineOutcomes :
       Do("__sub__", self, other, <<>>, "", NoExtra,
          _apply_op(heap, self, other, "__sub__", <<>>, <<>>, out))

__mod__ ==
  /\ last = NoOp
  /\ \E self \in Proxies(heap), other \in Operands(heap), out \in EngineOutcomes :
       Do("__mod__", self, other, <<>>, "", NoExtra,
          _apply_op(heap, self, other, "__mod__", <<>>, <<>>, out))

join ==
  /\ last = NoOp
  /\ \E self \in Proxies(heap), other \in Operands(heap), extra \in ExtraArgs,
     out \in EngineOutcomes :
    Do("join", self, other, <<>>, "", extra,
       _apply_op(heap, self, other, "join", extra.args, extra.kwargs, out))

join_asof ==
  /\ last = NoOp
  /\ \E self \in Proxies(heap), other \in Operands(heap), extra \in ExtraArgs,
     out \in EngineOutcomes :
    Do("join_asof", self, other, <<>>, "", extra,
       _apply_op(heap, self, other, "join_asof", extra.args, extra.kwargs, out))

GetAttr ==
  /\ last = NoOp
  /\ \E self \in Proxies(heap), name \in AttrNames, out \in AttrOutcomes :
    Do("__getattr__", self, 0, <<>>, name, NoExtra, __getattr__(heap, self, name, out))

CallMethod ==
  /\ last = NoOp
  /\ \E self \in Proxies(heap), name \in AttrNames, extra \in ExtraArgs,
     out \in EngineOutcomes :
    Do("call", self, 0, <<>>, name, extra,
       call_method(heap, self, name, extra.args, extra.kwargs, out))

__getitem__ ==
  /\ last = NoOp
  /\ \E self \in Proxies(heap), item \in PlainRefs, out \in EngineOutcomes :
    Do("__getitem__", self, item, <<>>, "", NoExtra, getitem(heap, self, item, out))

__copy__ ==
  /\ last = NoOp
  /\ \E self \in Proxies(heap) :
    Do("__copy__", self, 0, <<>>, "", NoExtra, copy(heap, self))

__getstate__ ==
  /\ last = NoOp
  /\ \E self \in Proxies(heap) :
    Do("__getstate__", self, 0, <<>>, "", NoExtra, getstate(heap, self))

__setattr__ ==
  /\ last = NoOp
  /\ \E self \in Proxies(heap), name \in {"data", "extra_attr"}, value \in PlainRefs :
    Do("__setattr__", self, value, <<>>, name, NoExtra, setattr(heap, self, name, value))

partition_by ==
  /\ last = NoOp
  /\ \E self \in Proxies(heap), extra \in ExtraArgs, out \in PartitionOutcomes :
    Do("partition_by", self, 0, <<>>, "", extra,
       partition_by_(heap, self, extra.args, extra.kwargs, out))

concat ==
  /\ last = NoOp
  /\ \E items \in Items(heap), base \in Proxies(heap), extra \in {NoExtra},
     out \in ConcatOutcomes :
    Do("concat", base, 0, items, "", [extra EXCEPT !.args = <<>>],
       concat_(heap, items, base, extra.kwargs, out))

\* the caller takes the result (or catches the exception) and goes on
Continue == last # NoOp /\ last' = NoOp /\ UNCHANGED heap

Next ==
  \/ Continue
  \/ __eq__ \/ __ne__ \/ __gt__ \/ __lt__ \/ __ge__ \/ __le__
  \/ __floordiv__ \/ __truediv__ \/ __mul__ \/ __rmul__
  \/ __add__ \/ __radd__ \/ __sub__ \/ __mod__
  \/ join \/ join_asof
  \/ GetAttr \/ CallMethod \/ __getitem__
  \/ __copy__ \/ __getstate__ \/ __setattr__
  \/ partition_by \/ concat

Spec == Init /\ [][Next]_vars

\* ------------------------------------------------------------------ claims
CompDunders == {"__eq__", "__ne__", "__gt__", "__lt__", "__ge__", "__le__"}

ArithDunders ==
  {"__floordiv__", "__truediv__", "__mul__", "__rmul__",
   "__add__", "__radd__", "__sub__", "__mod__"}

IsFamily(r) == isinstance(heap, r, DataFrameLikeClasses)

\* r when it is no proxy, its payload when it is one
Payload(r) == IF IsProxy(heap, r) THEN heap[r].data ELSE r

Derived(r) == r > Len(InitHeap)

\* p is a proxy created by the last operation, holding raw and self's metadata
Wraps(p, raw, self) ==
  /\ IsProxy(heap, p)
  /\ p > last.pre
  /\ heap[p].data = raw
  /\ heap[p].extra_attr = heap[self].extra_attr

ReturnsOneProxy ==
  last.exc = "" /\ last.retshape = "value" /\ Len(last.ret) = 1
    /\ IsProxy(heap, last.ret[1])

\* C1: every proxy an operation returns carries the metadata of self (of base
\* for concat); when the other operand, or an item given to concat, carries a
\* different metadata, the returned proxy does not carry that one.
C1_MetadataPropagation ==
  \A i \in DOMAIN last.ret :
    IsProxy(heap, last.ret[i]) =>
      LET m == heap[last.ret[i]].extra_attr IN
      /\ m = heap[last.self].extra_attr
      /\ (IsProxy(heap, last.other)
            /\ heap[last.other].extra_attr # heap[last.self].extra_attr)
           => m # heap[last.other].extra_attr
      /\ \A j \in DOMAIN last.items :
           heap[last.items[j]].extra_attr # heap[last.self].extra_attr
             => m # heap[last.items[j]].extra_attr

\* a derived proxy is the left operand of an arithmetic operator whose right
\* operand is a proxy with another metadata, and a proxy comes back
C1_Witness ==
  /\ last.op \in ArithDunders
  /\ Derived(last.self)
  /\ IsProxy(heap, last.other)
  /\ heap[last.other].extra_attr # heap[last.self].extra_attr
  /\ ReturnsOneProxy

\* C2: proxy.m(args) calls the payload's m with exactly those arguments; a
\* family-typed result comes back as a new proxy holding it with the proxy's
\* metadata, any other result comes back itself; an attribute that is not
\* callable comes back wrapped iff it is family-typed and itself otherwise.
C2_RewrapRule ==
  /\ (last.op = "call" /\ last.calls # <<>>) =>
       last.calls = <<Call(last.name, heap[last.self].data, last.args, last.kwargs)>>
  /\ (last.op \in {"call", "__getattr__"} /\ last.exc = "" /\ last.retshape # "wrapper") =>
       /\ last.retshape = "value"
       /\ Len(last.ret) = 1
       /\ IF IsFamily(last.raw[1])
          THEN Wraps(last.ret[1], last.raw[1], last.self)
          ELSE last.ret[1] = last.raw[1]
  /\ (last.op = "__getattr__" /\ last.retshape = "wrapper") =>
       callable(heap, last.raw[1]) /\ ~IsFamily(last.raw[1])

C2_Witness ==
  /\ last.op = "call"
  /\ last.args # <<>>
  /\ last.kwargs # <<>>
  /\ IsFamily(last.raw[1])
  /\ ReturnsOneProxy
  /\ heap[last.ret[1]].data = last.raw[1]

\* C3: when the right operand of a comparison is a proxy, the payload's
\* comparison is invoked with that operand's payload, and with the operand
\* itself when it is no proxy.
C3_ComparisonUnwraps ==
  (last.op \in CompDunders /\ last.calls # <<>>) =>
    last.calls[1].args[1] = Obj(Payload(last.other))

\* the operator name the claim gives for each comparison operator
C4_Name(dunder) ==
  CASE dunder = "__eq__" -> "eq"
    [] dunder = "__ne__" -> "neq"
    [] dunder = "__gt__" -> "gt"
    [] dunder = "__lt__" -> "lt"
    [] dunder = "__ge__" -> "gt_eq"
    [] dunder = "__le__" -> "lt_eq"

\* C4: a comparison operator invokes the comparison of self's payload under
\* its own operator name (<= under lt_eq and never gt_eq, >= under gt_eq and
\* never lt_eq), and a family-typed result comes back wrapped in a new proxy.
C4_ComparatorNames ==
  (last.op \in CompDunders /\ last.calls # <<>>) =>
    /\ Len(last.calls) = 1
    /\ last.calls[1].recv = heap[last.self].data
    /\ last.calls[1].name \in {"_compare_to_other_df", "_compare_to_non_df"}
    /\ last.calls[1].args[2] = Str(C4_Name(last.op))
    /\ (last.op = "__le__" => last.calls[1].args[2] # Str("gt_eq"))
    /\ (last.op = "__ge__" => last.calls[1].args[2] # Str("lt_eq"))
    /\ (last.exc = "" /\ IsFamily(last.raw[1])) =>
         ReturnsOneProxy /\ Wraps(last.ret[1], last.raw[1], last.self)

C4_Witness ==
  /\ last.op = "__le__"
  /\ IsProxy(heap, last.other)
  /\ last.other # last.self
  /\ ReturnsOneProxy
  /\ heap[last.ret[1]].data = last.raw[1]

\* C5: an arithmetic operator, join and join_asof invoke the payload's
\* operation of that name on self's payload, with the other operand replaced
\* by its payload when it is a proxy and the extra arguments as given; what
\* comes back is always a new proxy holding the result with self's metadata.
C5_BinaryOps ==
  (last.op \in ArithDunders \cup {"join", "join_asof"}) =>
    /\ last.calls # <<>> =>
         last.calls = <<Call(last.op, heap[last.self].data,
                             <<Obj(Payload(last.other))>> \o last.args, last.kwargs)>>
    /\ last.exc = "" =>
         /\ last.calls # <<>>
         /\ ReturnsOneProxy
         /\ Wraps(last.ret[1], last.raw[1], last.self)

C5_Witness ==
  /\ last.op = "join"
  /\ IsProxy(heap, last.other)
  /\ last.other # last.self
  /\ last.args # <<>>
  /\ last.kwargs # <<>>
  /\ ReturnsOneProxy
  /\ last.calls[1].args[1] = Obj(heap[last.other].data)

\* C6: partition_by gives, for a list of n containers, a list of n new
\* proxies, the i-th holding the i-th container with self's metadata; for a
\* mapping, a mapping with the same keys whose values are such proxies; for
\* any other shape it fails with an assertion failure and returns nothing.
C6_PartitionShape ==
  (last.op = "partition_by" /\ last.calls # <<>>) =>
    /\ last.calls = <<Call("partition_by", heap[last.self].data, last.args, last.kwargs)>>
    /\ last.rawshape \in {"list", "dict"} =>
         /\ last.exc = ""
         /\ last.retshape = last.rawshape
         /\ last.retkeys = last.rawkeys
         /\ Len(last.ret) = Len(last.raw)
         /\ \A i \in DOMAIN last.raw : Wraps(last.ret[i], last.raw[i], last.self)
    /\ last.rawshape = "other" =>
         last.exc = "AssertionError" /\ last.ret = <<>> /\ last.retshape = "none"

C6_Witness ==
  /\ last.op = "partition_by"
  /\ last.rawshape = "list"
  /\ Len(last.raw) >= 2
  /\ last.raw[1] # last.raw[2]
  /\ Len(last.ret) = Len(last.raw)
  /\ heap[last.ret[2]].data = last.raw[2]
  /\ last.exc = ""

\* C7: concat(items, base) hands the engine the items' payloads in the given
\* order and nothing else, and gives one new proxy holding the result with
\* base's metadata, whatever the items' metadata and whether or not base is
\* one of the items.
C7_ConcatIndependence ==
  last.op = "concat" =>
    /\ last.calls # <<>> =>
         last.calls = <<Call("concat", 0,
                             [i \in 1..Len(last.items) |-> Obj(heap[last.items[i]].data)],
                             last.kwargs)>>
    /\ last.exc = "" =>
         /\ last.calls # <<>>
         /\ ReturnsOneProxy
         /\ Wraps(last.ret[1], last.raw[1], last.self)

\* base is none of the items, shares no payload and no metadata with them
C7_Witness ==
  /\ last.op = "concat"
  /\ Len(last.items) = 2
  /\ \A j \in DOMAIN last.items :
       /\ last.items[j] # last.self
       /\ heap[last.items[j]].data # heap[last.self].data
       /\ heap[last.items[j]].extra_attr # heap[last.self].extra_attr
  /\ ReturnsOneProxy
  /\ heap[last.ret[1]].extra_attr = heap[last.self].extra_attr

\* C8: no step changes an object that exists, and a proxy an operation
\* returns is an instance that did not exist before.
C8_Immutability ==
  [][/\ Len(heap') >= Len(heap)
     /\ \A i \in DOMAIN heap : heap'[i] = heap[i]
     /\ \A j \in DOMAIN last'.ret :
          IsProxy(heap', last'.ret[j]) => last'.ret[j] \notin DOMAIN heap]_vars

\* an assignment to a field of a derived proxy was attempted and refused
C8_Witness ==
  /\ last.op = "__setattr__"
  /\ last.exc = "FrozenInstanceError"
  /\ Derived(last.self)
  /\ heap[last.self].data # last.other

\* C9: __getstate__ fails with NotImplementedError, returns nothing and
\* changes no object.
C9_SerializationRejected ==
  [][last'.op = "__getstate__" =>
       /\ last'.exc = "NotImplementedError"
       /\ last'.ret = <<>>
       /\ last'.retshape = "none"
       /\ last'.calls = <<>>
       /\ heap' = heap]_vars

\* __getstate__ of a derived proxy whose metadata is not the default
C9_Witness ==
  /\ last.op = "__getstate__"
  /\ Derived(last.self)
  /\ heap[last.self].extra_attr # DefaultExtraAttr
  /\ last.exc = "NotImplementedError"

\* C10: the payload of every proxy is of a family type.
C10_PayloadFamily ==
  \A p \in Proxies(heap) : IsFamily(heap[p].data)

====
